---- MODULE Spec2Model ----
(***************************************************************************)
(* A model of the chat client in src/public/app.jsx (the App component,    *)
(* lines 467-792, with api and AuthScreen.submit): the session gate, the   *)
(* polling loops, the optimistic message queue, the attachment staging     *)
(* buffer and the scroll anchoring controller.                             *)
(*                                                                         *)
(* JavaScript runs one task at a time: an action of the model is one task  *)
(* (an event handler up to its first await, a timer callback, or the       *)
(* continuation of an await with the microtasks it chains), followed by    *)
(* the React render and effects that the task's state updates cause.       *)
(***************************************************************************)
EXTENDS Integers, Sequences, FiniteSets, TLC

(***************************************************************************)
(* Values.  null / undefined / an absent option is the empty tuple, a      *)
(* present value v is <<v>>.                                               *)
(***************************************************************************)
Null == << >>
Some(v) == << v >>
Val(o) == o[1]

Max(a, b) == IF a >= b THEN a ELSE b
Min(a, b) == IF a <= b THEN a ELSE b

\* Program constants.
MaxAttachments == 6
NearBottomThreshold == 90

(***************************************************************************)
(* The merged timeline: allMessages (app.jsx 484-488).                     *)
(***************************************************************************)

\* (m.createdAt || 0): a missing createdAt, like a createdAt of 0, counts 0.
CreatedAtOrZero(m) ==
  IF "createdAt" \in DOMAIN m THEN m.createdAt ELSE 0

\* A comparator that never answers 0: equal keys compare as "greater".
CompareNeverEqual(a, b) ==
  IF CreatedAtOrZero(a) < CreatedAtOrZero(b) THEN -1 ELSE 1

\* The comparator of line 486.
CompareCreatedAt(a, b) == CreatedAtOrZero(a) - CreatedAtOrZero(b)

\* A sort that is not stable: an element goes before the elements already
\* placed that compare equal to it.
RECURSIVE InsertBeforeEqual(_, _)
InsertBeforeEqual(sorted, x) ==
  IF sorted = << >> THEN << x >>
  ELSE IF CompareCreatedAt(sorted[Len(sorted)], x) < 0
       THEN Append(sorted, x)
       ELSE Append(InsertBeforeEqual(SubSeq(sorted, 1, Len(sorted) - 1), x),
                   sorted[Len(sorted)])

\* Array.prototype.sort is a stable sort: an element goes after every
\* element already placed that does not compare greater than it.
RECURSIVE InsertSorted(_, _)
InsertSorted(sorted, x) ==
  IF sorted = << >> THEN << x >>
  ELSE IF CompareCreatedAt(sorted[Len(sorted)], x) <= 0
       THEN Append(sorted, x)
       ELSE Append(InsertSorted(SubSeq(sorted, 1, Len(sorted) - 1), x),
                   sorted[Len(sorted)])

RECURSIVE SortByCreatedAt(_)
SortByCreatedAt(s) ==
  IF s = << >> THEN << >>
  ELSE InsertSorted(SortByCreatedAt(SubSeq(s, 1, Len(s) - 1)), s[Len(s)])

\* A merge that concatenates and does not sort.
MergeUnsorted(msgs, pend) == msgs \o pend

\* const merged = [...messages, ...pendingMessages]; merged.sort(...)
MergeTimeline(msgs, pend) == SortByCreatedAt(msgs \o pend)

(***************************************************************************)
(* State.                                                                  *)
(***************************************************************************)
VARIABLES
  token,             \* localStorage[TOKEN_KEY]: Null or Some(token)
  ready,             \* useState(false), line 468
  me,                \* useState(null), line 469: Null or Some(user)
  users,             \* line 470
  messages,          \* line 471: the authoritative list
  pendingMessages,   \* line 472: the optimistic queue
  text,              \* line 473: the compose text, a sequence of characters
  error,             \* line 474
  showScrollButton,  \* line 475: the jump-to-bottom affordance
  attachments,       \* line 477: the staging buffer, items [id, dataUrl]
  stickToBottom,     \* stickToBottomRef.current, line 482
  allMessages,       \* the useMemo of lines 484-488
  authenticated,     \* the useMemo of line 564 (recomputed when me changes)
  authError,         \* AuthScreen's error, line 430
  scrollTop,         \* messagesRef.current.scrollTop (0 while not rendered)
  mounted,           \* App is mounted: the cleanup of line 550 has not run
  active,            \* the polling effect's flag, line 541
  timers,            \* pending setTimeout callbacks [id, delay], oldest first
  requests,          \* HTTP requests in flight, with the response once known
  nextAuth,          \* number of AuthScreen submits so far
  nextTmp,           \* number of tempIds drawn so far
  nextUuid,          \* number of crypto.randomUUID() values drawn so far
  nextOp,            \* number of logout / avatar requests so far
  now,               \* Date.now()
  srvSessions,       \* server: the valid tokens
  srvMessages,       \* server: the room history
  srvAvatar,         \* server: the account's avatar
  reading            \* file batches FileReader is still converting

vars == << token, ready, me, users, messages, pendingMessages, text, error,
           showScrollButton, attachments, stickToBottom, allMessages,
           authenticated, authError, scrollTop, mounted, active, timers,
           requests, nextAuth, nextTmp, nextUuid, nextOp, now,
           srvSessions, srvMessages, srvAvatar, reading >>

\* Everything the server and the network hold.
serverVars == << srvSessions, srvMessages, srvAvatar >>
\* The counters for fresh identifiers.
counterVars == << nextAuth, nextTmp, nextUuid, nextOp >>
\* What no server, timer or polling step touches.
localVars == << counterVars, reading >>

(***************************************************************************)
(* The three-way screen selection of lines 679-680.                        *)
(***************************************************************************)
Screen ==
  IF ~mounted THEN "none"
  ELSE IF ~ready THEN "loading"
  ELSE IF ~authenticated THEN "auth"
  ELSE "chat"

\* messagesRef.current is the messages <div> of the chat screen.
NodePresent == Screen = "chat"

(***************************************************************************)
(* The geometry of the messages viewport.  Every message is MessageHeight  *)
(* tall and the viewport ClientHeight; scrollHeight is never less than     *)
(* clientHeight and the browser keeps 0 <= scrollTop <= scrollHeight -     *)
(* clientHeight.                                                           *)
(***************************************************************************)
MessageHeight == 100
ClientHeight == 100

ScrollHeight(timeline) == Max(ClientHeight, Len(timeline) * MessageHeight)
MaxScrollTop(timeline) == ScrollHeight(timeline) - ClientHeight
\* distanceToBottom of line 500.
DistanceToBottom == ScrollHeight(allMessages) - scrollTop - ClientHeight

\* A test that takes the threshold itself for near.
NearBottomInclusive(distanceToBottom) == distanceToBottom <= NearBottomThreshold

\* nearBottom of line 501.
NearBottom(distanceToBottom) == distanceToBottom < NearBottomThreshold

(***************************************************************************)
(* Render: what React recomputes and which effects run after a task that   *)
(* updated state.  meChanged: setMe got a value that is not the current    *)
(* one (a response's me is always a new object).  listsChanged: setMessages*)
(* or setPendingMessages got a new array, so allMessages is recomputed and *)
(* the effect of lines 556-558 runs scrollToBottom().  stick is the value  *)
(* of stickToBottomRef.current the task left.                              *)
(*                                                                         *)
(* The messages <div> is new (scrollTop 0) when the chat screen appears;   *)
(* when the content shrinks under the scroll position the browser clamps   *)
(* scrollTop and fires a scroll event, which runs checkScrollPosition at   *)
(* distance 0.                                                             *)
(***************************************************************************)
\* A render whose effect calls scrollToBottom(true): it never looks at
\* stickToBottomRef.
RenderForcesScroll(meChanged, listsChanged, stick) ==
  /\ authenticated' = IF meChanged THEN (token' # Null /\ me' # Null)
                      ELSE authenticated
  /\ allMessages' = IF listsChanged
                    THEN MergeTimeline(messages', pendingMessages')
                    ELSE allMessages
  /\ LET nodeAfter == ready' /\ authenticated'
         maxTop == MaxScrollTop(allMessages')
         top0 == IF nodeAfter /\ NodePresent THEN Min(scrollTop, maxTop) ELSE 0
         scrolls == listsChanged /\ nodeAfter
     IN /\ scrollTop' = IF scrolls THEN maxTop ELSE top0
        /\ stickToBottom' = IF scrolls THEN TRUE ELSE stick
        /\ showScrollButton' = IF scrolls THEN FALSE ELSE showScrollButton
        /\ authError' = IF nodeAfter THEN "" ELSE authError

\* A render whose effect does nothing: the viewport stays where it is.
RenderNeverScrolls(meChanged, listsChanged, stick) ==
  /\ authenticated' = IF meChanged THEN (token' # Null /\ me' # Null)
                      ELSE authenticated
  /\ allMessages' = IF listsChanged
                    THEN MergeTimeline(messages', pendingMessages')
                    ELSE allMessages
  /\ LET nodeAfter == ready' /\ authenticated'
         maxTop == MaxScrollTop(allMessages')
         top0 == IF nodeAfter /\ NodePresent THEN Min(scrollTop, maxTop) ELSE 0
     IN /\ scrollTop' = top0
        /\ stickToBottom' = stick
        /\ showScrollButton' = showScrollButton
        /\ authError' = IF nodeAfter THEN "" ELSE authError

Render(meChanged, listsChanged, stick) ==
  /\ authenticated' = IF meChanged THEN (token' # Null /\ me' # Null)
                      ELSE authenticated
  /\ allMessages' = IF listsChanged
                    THEN MergeTimeline(messages', pendingMessages')
                    ELSE allMessages
  /\ LET nodeBefore == NodePresent
         nodeAfter == ready' /\ authenticated'
         maxTop == MaxScrollTop(allMessages')
         top0 == IF nodeAfter /\ nodeBefore THEN Min(scrollTop, maxTop) ELSE 0
         clamped == nodeAfter /\ nodeBefore /\ top0 # scrollTop
         stick1 == IF clamped THEN NearBottom(maxTop - top0) ELSE stick
         button1 == IF clamped THEN ~NearBottom(maxTop - top0)
                    ELSE showScrollButton
         \* scrollToBottom() of the effect: lines 506-514 with force = false
         scrolls == listsChanged /\ nodeAfter /\ stick1
     IN /\ scrollTop' = IF scrolls THEN maxTop ELSE top0
        /\ stickToBottom' = IF scrolls THEN TRUE ELSE stick1
        /\ showScrollButton' = IF scrolls THEN FALSE ELSE button1
        \* AuthScreen is unmounted, and its state dropped, by the chat screen.
        /\ authError' = IF nodeAfter THEN "" ELSE authError

\* The variables Render sets.
viewVars == << authenticated, allMessages, scrollTop, stickToBottom,
               showScrollButton >>
renderVars == << viewVars, authError >>

(***************************************************************************)
(* Requests.  A request is [owner, path, tok, body, resp]: owner names the *)
(* code awaiting it, tok is the token api() read from localStorage when it *)
(* was called (lines 7-19), resp is Null until the response is known.      *)
(***************************************************************************)
Request(owner, path, tok, body) ==
  [owner |-> owner, path |-> path, tok |-> tok, body |-> body, resp |-> Null]

Ok(data) == [ok |-> TRUE, data |-> data]
\* api throws new Error(body.error || 'Request failed'), line 17.
Failed(msg) == [ok |-> FALSE, error |-> msg]

Unauthorized == "unauthorized"
RequestFailed == "Request failed"

Answered(owner) ==
  { r \in requests : r.owner = owner /\ r.resp # Null }

(***************************************************************************)
(* Timers.  A callback runs once no timer set before it with an equal or   *)
(* shorter delay is still pending (the HTML timer rule).                   *)
(***************************************************************************)
PollDelay == 1800

SetTimeout(queue, id, delay) == Append(queue, [id |-> id, delay |-> delay])
ClearTimeout(queue, id) == SelectSeq(queue, LAMBDA t : t.id # id)
Due(i) == \A j \in 1..(i - 1) : timers[j].delay > timers[i].delay

\* GET /api/state requests in flight (not yet delivered to loadState).
StateFetches == { r \in requests : r.path = "state" }

(***************************************************************************)
(* The server, as far as the endpoint contracts describe it.               *)
(***************************************************************************)
Nickname == "ann"

SrvMe == [nickname |-> Nickname, avatar |-> srvAvatar]
SrvUsers == << [nickname |-> Nickname, avatar |-> srvAvatar, online |-> TRUE] >>

SessionValid(r) == r.tok # Null /\ Val(r.tok) \in srvSessions

SrvMessage(n, nick, avatar, body, at) ==
  [id |-> << "srv", n >>, nickname |-> nick, avatar |-> avatar,
   text |-> body.text, attachments |-> body.attachments, createdAt |-> at]

Respond(r, resp) == requests' = (requests \ {r}) \cup {[r EXCEPT !.resp = Some(resp)]}

\* GET /api/state -> {me, users, messages}, or the unauthorized signal.
ServerState(r) ==
  /\ r \in requests /\ r.resp = Null /\ r.path = "state"
  /\ Respond(r, IF SessionValid(r)
                THEN Ok([me |-> SrvMe, users |-> SrvUsers, messages |-> srvMessages])
                ELSE Failed(Unauthorized))
  /\ UNCHANGED << token, ready, me, users, messages, pendingMessages, text,
                  error, attachments, renderVars, mounted, active,
                  timers, localVars, now, serverVars >>

\* POST /api/message {text, attachments} -> ack: the history grows by one.
ServerMessage(r) ==
  /\ r \in requests /\ r.resp = Null /\ r.path = "message"
  /\ IF SessionValid(r)
     THEN /\ srvMessages' = Append(srvMessages,
               SrvMessage(Len(srvMessages) + 1, Nickname, srvAvatar, Val(r.body), now))
          /\ Respond(r, Ok(Null))
     ELSE /\ srvMessages' = srvMessages
          /\ Respond(r, Failed(Unauthorized))
  /\ UNCHANGED << token, ready, me, users, messages, pendingMessages, text,
                  error, attachments, renderVars, mounted, active,
                  timers, localVars, now, srvSessions, srvAvatar >>

\* POST /api/avatar {avatar} -> ack.
ServerAvatar(r) ==
  /\ r \in requests /\ r.resp = Null /\ r.path = "avatar"
  /\ srvAvatar' = IF SessionValid(r) THEN r.body ELSE srvAvatar
  /\ Respond(r, IF SessionValid(r) THEN Ok(Null) ELSE Failed(Unauthorized))
  /\ UNCHANGED << token, ready, me, users, messages, pendingMessages, text,
                  error, attachments, renderVars, mounted, active,
                  timers, localVars, now, srvSessions, srvMessages >>

\* POST /api/logout {} -> ack: the session of the request's token ends.
ServerLogout(r) ==
  /\ r \in requests /\ r.resp = Null /\ r.path = "logout"
  /\ srvSessions' = IF r.tok = Null THEN srvSessions ELSE srvSessions \ {Val(r.tok)}
  /\ Respond(r, IF SessionValid(r) THEN Ok(Null) ELSE Failed(Unauthorized))
  /\ UNCHANGED << token, ready, me, users, messages, pendingMessages, text,
                  error, attachments, renderVars, mounted, active,
                  timers, localVars, now, srvMessages, srvAvatar >>

\* POST /api/login or /api/register -> {token}: a new session.
ServerLoginOk(r) ==
  /\ r \in requests /\ r.resp = Null /\ r.path = "login"
  /\ srvSessions' = srvSessions \cup {r.owner[2]}
  /\ Respond(r, Ok([token |-> r.owner[2]]))
  /\ UNCHANGED << token, ready, me, users, messages, pendingMessages, text,
                  error, attachments, renderVars, mounted, active,
                  timers, localVars, now, srvMessages, srvAvatar >>

\* ... or a validation or credential error, surfaced as a message string.
ServerLoginRejected(r) ==
  /\ r \in requests /\ r.resp = Null /\ r.path = "login"
  /\ Respond(r, Failed("invalid credentials"))
  /\ UNCHANGED << token, ready, me, users, messages, pendingMessages, text,
                  error, attachments, renderVars, mounted, active,
                  timers, localVars, now, serverVars >>

\* fetch rejects, or the server answers with an error that is not the
\* unauthorized signal: api throws an Error with another message.
NetworkFailure(r) ==
  /\ r \in requests /\ r.resp = Null
  /\ Respond(r, Failed(RequestFailed))
  /\ UNCHANGED << token, ready, me, users, messages, pendingMessages, text,
                  error, attachments, renderVars, mounted, active,
                  timers, localVars, now, serverVars >>

\* Expiry is enforced server-side and surfaces as an unauthorized signal.
ServerExpire(t) ==
  /\ t \in srvSessions
  /\ srvSessions' = srvSessions \ {t}
  /\ UNCHANGED << token, ready, me, users, messages, pendingMessages, text,
                  error, attachments, renderVars, mounted, active,
                  timers, requests, localVars, now, srvMessages, srvAvatar >>

\* Another participant's message reaches the room history.
OtherUserPosts ==
  /\ srvMessages' = Append(srvMessages,
       SrvMessage(Len(srvMessages) + 1, "bob", Null,
                  [text |-> << "h" >>, attachments |-> << >>], now))
  /\ UNCHANGED << token, ready, me, users, messages, pendingMessages, text,
                  error, attachments, renderVars, mounted, active,
                  timers, requests, localVars, now, srvSessions, srvAvatar >>

\* Time passes.
Tick ==
  /\ now' = now + 1
  /\ UNCHANGED << token, ready, me, users, messages, pendingMessages, text,
                  error, attachments, renderVars, mounted, active,
                  timers, requests, localVars, serverVars >>

(***************************************************************************)
(* The client.                                                             *)
(***************************************************************************)

\* A state setter called after App was unmounted changes nothing (React 18).
appVars == << ready, me, users, messages, pendingMessages, text, error,
              attachments >>
reactVars == << appVars, renderVars >>

\* A loadState whose catch forgets localStorage.removeItem(TOKEN_KEY).
LoadStateKeepsToken(resp) ==
  /\ token' = token
  /\ IF mounted
     THEN /\ me' = IF resp.ok THEN Some(resp.data.me)
                   ELSE IF resp.error = Unauthorized THEN Null ELSE me
          /\ users' = IF resp.ok THEN resp.data.users ELSE users
          /\ messages' = IF resp.ok THEN resp.data.messages ELSE messages
          /\ error' = IF resp.ok THEN "" ELSE resp.error
          /\ ready' = TRUE
          /\ UNCHANGED << pendingMessages, text, attachments >>
          /\ Render(resp.ok \/ (resp.error = Unauthorized /\ me # Null),
                    resp.ok, stickToBottom)
     ELSE UNCHANGED reactVars

\* A loadState that empties the optimistic queue when the fetch succeeded.
LoadStateClearsPending(resp) ==
  /\ token' = IF ~resp.ok /\ resp.error = Unauthorized THEN Null ELSE token
  /\ IF mounted
     THEN /\ me' = IF resp.ok THEN Some(resp.data.me)
                   ELSE IF resp.error = Unauthorized THEN Null ELSE me
          /\ users' = IF resp.ok THEN resp.data.users ELSE users
          /\ messages' = IF resp.ok THEN resp.data.messages ELSE messages
          /\ pendingMessages' = IF resp.ok THEN << >> ELSE pendingMessages
          /\ error' = IF resp.ok THEN "" ELSE resp.error
          /\ ready' = TRUE
          /\ UNCHANGED << text, attachments >>
          /\ Render(resp.ok \/ (resp.error = Unauthorized /\ me # Null),
                    resp.ok, stickToBottom)
     ELSE UNCHANGED reactVars

\* loadState after its await (lines 519-531), for the response resp.
LoadStateDone(resp) ==
  /\ token' = IF ~resp.ok /\ resp.error = Unauthorized THEN Null ELSE token
  /\ IF mounted
     THEN /\ me' = IF resp.ok THEN Some(resp.data.me)
                   ELSE IF resp.error = Unauthorized THEN Null ELSE me
          /\ users' = IF resp.ok THEN resp.data.users ELSE users
          /\ messages' = IF resp.ok THEN resp.data.messages ELSE messages
          /\ error' = IF resp.ok THEN "" ELSE resp.error
          /\ ready' = TRUE
          /\ UNCHANGED << pendingMessages, text, attachments >>
          /\ Render(resp.ok \/ (resp.error = Unauthorized /\ me # Null),
                    resp.ok, stickToBottom)
     ELSE UNCHANGED reactVars

\* loadState up to its await: api('/api/state') sends the request.
LoadStateCall(owner, tok) == Request(owner, "state", tok, Null)

LoopId == << "loop", 0 >>

\* The timer callback loop (lines 543-545): returns if stopped, else calls
\* loadState.
LoopTimer ==
  /\ \E i \in DOMAIN timers : timers[i].id = LoopId /\ Due(i)
  /\ timers' = ClearTimeout(timers, LoopId)
  /\ requests' = IF active THEN requests \cup {LoadStateCall(LoopId, token)}
                 ELSE requests
  /\ UNCHANGED << token, reactVars, mounted, active, localVars,
                  now, serverVars >>

\* A loop that polls again only after a fetch that succeeded.
LoopLoadedGivesUp(r) ==
  /\ r \in Answered(LoopId)
  /\ LoadStateDone(Val(r.resp))
  /\ requests' = requests \ {r}
  /\ timers' = IF active /\ token' # Null /\ Val(r.resp).ok
               THEN SetTimeout(timers, LoopId, PollDelay) ELSE timers
  /\ UNCHANGED << mounted, active, localVars, now, serverVars >>

\* loop after await loadState() (lines 545-546).
LoopLoaded(r) ==
  /\ r \in Answered(LoopId)
  /\ LoadStateDone(Val(r.resp))
  /\ requests' = requests \ {r}
  /\ timers' = IF active /\ token' # Null
               THEN SetTimeout(timers, LoopId, PollDelay) ELSE timers
  /\ UNCHANGED << mounted, active, localVars, now, serverVars >>

\* The cleanup of the polling effect (lines 550-553), run when App unmounts.
Cleanup ==
  /\ mounted
  /\ mounted' = FALSE
  /\ active' = FALSE
  /\ timers' = ClearTimeout(timers, LoopId)
  /\ UNCHANGED << token, reactVars, requests, localVars, now,
                  serverVars >>

(***************************************************************************)
(* AuthScreen.submit (lines 432-445) and onAuth (lines 566-574).           *)
(***************************************************************************)
AuthSubmit ==
  /\ Screen = "auth"
  /\ nextAuth' = nextAuth + 1
  /\ authError' = ""
  /\ requests' = requests \cup
       {Request(<< "login", nextAuth + 1 >>, "login", token, Null)}
  /\ UNCHANGED << token, appVars, viewVars, mounted, active, timers, nextTmp,
                  nextUuid, nextOp, reading, now, serverVars >>

\* The login response: on success the token is stored and onAuth() calls
\* loadState; on failure the error is shown on the form (if still shown).
AuthDone(r) ==
  /\ r \in requests /\ r.path = "login" /\ r.resp # Null
  /\ LET resp == Val(r.resp)
         k == r.owner[2]
     IN IF resp.ok
        THEN /\ token' = Some(resp.data.token)
             /\ requests' = (requests \ {r}) \cup
                  {LoadStateCall(<< "onAuth", k >>, Some(resp.data.token))}
             /\ UNCHANGED authError
        ELSE /\ authError' = IF Screen = "auth" THEN resp.error ELSE authError
             /\ requests' = requests \ {r}
             /\ UNCHANGED token
  /\ UNCHANGED << appVars, viewVars, mounted, active, timers, localVars,
                  now, serverVars >>

\* onAuth after its await loadState(): the two setTimeout calls.
OnAuthLoaded(r) ==
  /\ r \in requests /\ r.owner[1] = "onAuth" /\ r.resp # Null
  /\ LoadStateDone(Val(r.resp))
  /\ requests' = requests \ {r}
  /\ timers' = SetTimeout(SetTimeout(timers, << "scroll", r.owner[2] >>, 0),
                          << "schedule", r.owner[2] >>, PollDelay)
  /\ UNCHANGED << mounted, active, localVars, now, serverVars >>

\* setTimeout(() => scrollToBottom(true), 0): lines 506-514 with force.
ScrollTimer(i) ==
  /\ i \in DOMAIN timers /\ timers[i].id[1] = "scroll" /\ Due(i)
  /\ timers' = ClearTimeout(timers, timers[i].id)
  /\ IF NodePresent
     THEN /\ scrollTop' = MaxScrollTop(allMessages)
          /\ stickToBottom' = TRUE
          /\ showScrollButton' = FALSE
     ELSE UNCHANGED << scrollTop, stickToBottom, showScrollButton >>
  /\ UNCHANGED << token, ready, me, users, messages, pendingMessages, text,
                  error, attachments, authenticated, allMessages, authError,
                  mounted, active, requests, localVars, now, serverVars >>

\* The timer callback schedule (lines 569-570): calls loadState.
ScheduleTimer(i) ==
  /\ i \in DOMAIN timers /\ timers[i].id[1] = "schedule" /\ Due(i)
  /\ timers' = ClearTimeout(timers, timers[i].id)
  /\ requests' = requests \cup {LoadStateCall(timers[i].id, token)}
  /\ UNCHANGED << token, reactVars, mounted, active, localVars,
                  now, serverVars >>

\* schedule after await loadState() (lines 570-571).
ScheduleLoaded(r) ==
  /\ r \in requests /\ r.owner[1] = "schedule" /\ r.resp # Null
  /\ LoadStateDone(Val(r.resp))
  /\ requests' = requests \ {r}
  /\ timers' = IF token' # Null
               THEN SetTimeout(timers, << "schedule", r.owner[2] >>, PollDelay)
               ELSE timers
  /\ UNCHANGED << mounted, active, localVars, now, serverVars >>

(***************************************************************************)
(* The compose text is a sequence of characters; " " is whitespace.        *)
(***************************************************************************)
RECURSIVE TrimStart(_)
TrimStart(t) ==
  IF t # << >> /\ Head(t) = " " THEN TrimStart(Tail(t)) ELSE t

RECURSIVE TrimEnd(_)
TrimEnd(t) ==
  IF t # << >> /\ t[Len(t)] = " " THEN TrimEnd(SubSeq(t, 1, Len(t) - 1)) ELSE t

\* String.prototype.trim
Trim(t) == TrimEnd(TrimStart(t))

\* onChange of the textarea, line 775.
SetText(t) ==
  /\ Screen = "chat"
  /\ text' = t
  /\ UNCHANGED << token, ready, me, users, messages, pendingMessages, error,
                  attachments, renderVars, mounted, active, timers, requests,
                  localVars, now, serverVars >>

\* A filter that drops the oldest entry, whatever its id.
RemoveOldest(list, id) == IF list = << >> THEN list ELSE Tail(list)

\* prev.filter((m) => m.id !== id)
RemoveById(list, id) == SelectSeq(list, LAMBDA m : m.id # id)

\* An identifier made of Date.now() alone, without the random suffix.
TempIdOfClock(n) == << "tmp", now >>

TempId(n) == << "tmp", n >>

\* A sendMessage that sets the scroll anchor before it tests for a blank
\* message.
SendMessageAnchorsFirst ==
  /\ Screen = "chat"
  /\ LET cleanText == Trim(text)
         outgoingAttachments == [i \in DOMAIN attachments |-> attachments[i].dataUrl]
     IN IF cleanText = << >> /\ outgoingAttachments = << >>
        THEN /\ stickToBottom' = TRUE
             /\ UNCHANGED << token, appVars, authenticated, allMessages,
                             scrollTop, showScrollButton, authError, mounted,
                             active, timers, requests, localVars, now,
                             serverVars >>
        ELSE /\ me # Null
             /\ nextTmp' = nextTmp + 1
             /\ pendingMessages' = Append(pendingMessages,
                  [id |-> TempId(nextTmp + 1),
                   nickname |-> Val(me).nickname,
                   avatar |-> Val(me).avatar,
                   text |-> cleanText,
                   attachments |-> outgoingAttachments,
                   createdAt |-> now,
                   pending |-> TRUE])
             /\ text' = << >>
             /\ attachments' = << >>
             /\ requests' = requests \cup
                  {Request(<< "send", nextTmp + 1 >>, "message", token,
                           Some([text |-> cleanText,
                                 attachments |-> outgoingAttachments]))}
             /\ UNCHANGED << token, ready, me, users, messages, error >>
             /\ Render(FALSE, TRUE, TRUE)
             /\ UNCHANGED << mounted, active, timers, nextAuth, nextUuid,
                             nextOp, reading, now, serverVars >>

(***************************************************************************)
(* sendMessage up to its await (lines 606-632).                            *)
(***************************************************************************)
\* A sendMessage that leaves the staged images in the buffer and sends the
\* text as typed.
SendMessageKeepsStaged ==
  /\ Screen = "chat"
  /\ LET cleanText == Trim(text)
         outgoingAttachments == [i \in DOMAIN attachments |-> attachments[i].dataUrl]
     IN IF cleanText = << >> /\ outgoingAttachments = << >>
        THEN UNCHANGED vars
        ELSE /\ me # Null
             /\ nextTmp' = nextTmp + 1
             /\ pendingMessages' = Append(pendingMessages,
                  [id |-> TempId(nextTmp + 1),
                   nickname |-> Val(me).nickname,
                   avatar |-> Val(me).avatar,
                   text |-> text,
                   attachments |-> outgoingAttachments,
                   createdAt |-> now,
                   pending |-> TRUE])
             /\ text' = << >>
             /\ attachments' = attachments
             /\ requests' = requests \cup
                  {Request(<< "send", nextTmp + 1 >>, "message", token,
                           Some([text |-> text,
                                 attachments |-> outgoingAttachments]))}
             /\ UNCHANGED << token, ready, me, users, messages, error >>
             /\ Render(FALSE, TRUE, TRUE)
             /\ UNCHANGED << mounted, active, timers, nextAuth, nextUuid,
                             nextOp, reading, now, serverVars >>

SendMessage ==
  /\ Screen = "chat"
  /\ LET cleanText == Trim(text)
         outgoingAttachments == [i \in DOMAIN attachments |-> attachments[i].dataUrl]
     IN IF cleanText = << >> /\ outgoingAttachments = << >>
        THEN UNCHANGED vars
        ELSE /\ me # Null
             /\ nextTmp' = nextTmp + 1
             /\ pendingMessages' = Append(pendingMessages,
                  [id |-> TempId(nextTmp + 1),
                   nickname |-> Val(me).nickname,
                   avatar |-> Val(me).avatar,
                   text |-> cleanText,
                   attachments |-> outgoingAttachments,
                   createdAt |-> now,
                   pending |-> TRUE])
             /\ text' = << >>
             /\ attachments' = << >>
             /\ requests' = requests \cup
                  {Request(<< "send", nextTmp + 1 >>, "message", token,
                           Some([text |-> cleanText,
                                 attachments |-> outgoingAttachments]))}
             /\ UNCHANGED << token, ready, me, users, messages, error >>
             \* stickToBottomRef.current = true, then the render and effect
             /\ Render(FALSE, TRUE, TRUE)
             /\ UNCHANGED << mounted, active, timers, nextAuth, nextUuid,
                             nextOp, reading, now, serverVars >>

\* A sendMessage whose catch forgets to take the entry out of the queue.
SendDoneKeepsFailed(r) ==
  /\ r \in requests /\ r.path = "message" /\ r.resp # Null
  /\ LET resp == Val(r.resp)
         n == r.owner[2]
     IN /\ requests' = IF resp.ok
                       THEN (requests \ {r}) \cup
                            {LoadStateCall(<< "sendSync", n >>, token)}
                       ELSE requests \ {r}
        /\ IF mounted
           THEN /\ pendingMessages' = IF resp.ok
                                      THEN RemoveById(pendingMessages, TempId(n))
                                      ELSE pendingMessages
                /\ error' = IF resp.ok THEN error ELSE resp.error
                /\ UNCHANGED << ready, me, users, messages, text, attachments >>
                /\ Render(FALSE, resp.ok, stickToBottom)
           ELSE UNCHANGED reactVars
  /\ UNCHANGED << token, mounted, active, timers, localVars, now, serverVars >>

\* A sendMessage whose catch removes the entry and shows no error.
SendDoneSilent(r) ==
  /\ r \in requests /\ r.path = "message" /\ r.resp # Null
  /\ LET resp == Val(r.resp)
         n == r.owner[2]
     IN /\ requests' = IF resp.ok
                       THEN (requests \ {r}) \cup
                            {LoadStateCall(<< "sendSync", n >>, token)}
                       ELSE requests \ {r}
        /\ IF mounted
           THEN /\ pendingMessages' = RemoveById(pendingMessages, TempId(n))
                /\ UNCHANGED << ready, me, users, messages, text, error,
                                attachments >>
                /\ Render(FALSE, TRUE, stickToBottom)
           ELSE UNCHANGED reactVars
  /\ UNCHANGED << token, mounted, active, timers, localVars, now, serverVars >>

\* A sendMessage that does not fetch the state after a successful send.
SendDoneNoSync(r) ==
  /\ r \in requests /\ r.path = "message" /\ r.resp # Null
  /\ LET resp == Val(r.resp)
         n == r.owner[2]
     IN /\ requests' = requests \ {r}
        /\ IF mounted
           THEN /\ pendingMessages' = RemoveById(pendingMessages, TempId(n))
                /\ error' = IF resp.ok THEN error ELSE resp.error
                /\ UNCHANGED << ready, me, users, messages, text, attachments >>
                /\ Render(FALSE, TRUE, stickToBottom)
           ELSE UNCHANGED reactVars
  /\ UNCHANGED << token, mounted, active, timers, localVars, now, serverVars >>

\* sendMessage after await api('/api/message') (lines 633-637).
SendDone(r) ==
  /\ r \in requests /\ r.path = "message" /\ r.resp # Null
  /\ LET resp == Val(r.resp)
         n == r.owner[2]
     IN /\ requests' = IF resp.ok
                       THEN (requests \ {r}) \cup
                            {LoadStateCall(<< "sendSync", n >>, token)}
                       ELSE requests \ {r}
        /\ IF mounted
           THEN /\ pendingMessages' = RemoveById(pendingMessages, TempId(n))
                /\ error' = IF resp.ok THEN error ELSE resp.error
                /\ UNCHANGED << ready, me, users, messages, text, attachments >>
                /\ Render(FALSE, TRUE, stickToBottom)
           ELSE UNCHANGED reactVars
  /\ UNCHANGED << token, mounted, active, timers, localVars, now, serverVars >>

\* sendMessage after await loadState() (line 634): nothing more to do.
SendSynced(r) ==
  /\ r \in requests /\ r.owner[1] = "sendSync" /\ r.resp # Null
  /\ LoadStateDone(Val(r.resp))
  /\ requests' = requests \ {r}
  /\ UNCHANGED << mounted, active, timers, localVars, now, serverVars >>

(***************************************************************************)
(* logout (lines 641-653).                                                 *)
(***************************************************************************)
Logout ==
  /\ Screen = "chat"
  /\ nextOp' = nextOp + 1
  /\ requests' = requests \cup
       {Request(<< "logout", nextOp + 1 >>, "logout", token, Null)}
  /\ UNCHANGED << token, reactVars, mounted, active, timers, nextAuth,
                  nextTmp, nextUuid, reading, now, serverVars >>

\* A logout that resets the session only when the server acknowledged.
LogoutDoneOnlyAcked(r) ==
  /\ r \in requests /\ r.path = "logout" /\ r.resp # Null
  /\ requests' = requests \ {r}
  /\ token' = IF Val(r.resp).ok THEN Null ELSE token
  /\ IF mounted /\ Val(r.resp).ok
     THEN /\ me' = Null
          /\ users' = << >>
          /\ messages' = << >>
          /\ pendingMessages' = << >>
          /\ ready' = TRUE
          /\ UNCHANGED << text, error, attachments >>
          /\ Render(me # Null, TRUE, stickToBottom)
     ELSE UNCHANGED reactVars
  /\ UNCHANGED << mounted, active, timers, localVars, now, serverVars >>

\* A logout that removes the token and empties the lists but leaves me.
LogoutDoneKeepsIdentity(r) ==
  /\ r \in requests /\ r.path = "logout" /\ r.resp # Null
  /\ requests' = requests \ {r}
  /\ token' = Null
  /\ IF mounted
     THEN /\ users' = << >>
          /\ messages' = << >>
          /\ pendingMessages' = << >>
          /\ ready' = TRUE
          /\ UNCHANGED << me, text, error, attachments >>
          /\ Render(FALSE, TRUE, stickToBottom)
     ELSE UNCHANGED reactVars
  /\ UNCHANGED << mounted, active, timers, localVars, now, serverVars >>

\* After the await, whatever the response was (lines 647-652).
LogoutDone(r) ==
  /\ r \in requests /\ r.path = "logout" /\ r.resp # Null
  /\ requests' = requests \ {r}
  /\ token' = Null
  /\ IF mounted
     THEN /\ me' = Null
          /\ users' = << >>
          /\ messages' = << >>
          /\ pendingMessages' = << >>
          /\ ready' = TRUE
          /\ UNCHANGED << text, error, attachments >>
          /\ Render(me # Null, TRUE, stickToBottom)
     ELSE UNCHANGED reactVars
  /\ UNCHANGED << mounted, active, timers, localVars, now, serverVars >>

(***************************************************************************)
(* uploadAvatar (lines 655-667).  The handler awaits fileToDataUrl and     *)
(* then the request; a file that cannot be read throws an event without a  *)
(* message, so setError gets undefined and no error line is shown.         *)
(***************************************************************************)
UploadAvatar(file) ==
  /\ Screen = "chat"
  /\ IF file.result = Null
     THEN /\ error' = ""
          /\ UNCHANGED << requests, nextOp >>
     ELSE /\ nextOp' = nextOp + 1
          /\ requests' = requests \cup
               {Request(<< "avatar", nextOp + 1 >>, "avatar", token, file.result)}
          /\ UNCHANGED error
  /\ UNCHANGED << token, ready, me, users, messages, pendingMessages, text,
                  attachments, renderVars, mounted, active, timers, nextAuth,
                  nextTmp, nextUuid, reading, now, serverVars >>

\* uploadAvatar after await api('/api/avatar') (lines 661-663).
AvatarDone(r) ==
  /\ r \in requests /\ r.path = "avatar" /\ r.resp # Null
  /\ LET resp == Val(r.resp)
     IN /\ requests' = IF resp.ok
                       THEN (requests \ {r}) \cup
                            {LoadStateCall(<< "avatarSync", r.owner[2] >>, token)}
                       ELSE requests \ {r}
        /\ error' = IF mounted /\ ~resp.ok THEN resp.error ELSE error
  /\ UNCHANGED << token, ready, me, users, messages, pendingMessages, text,
                  attachments, renderVars, mounted, active, timers, localVars,
                  now, serverVars >>

\* uploadAvatar after await loadState() (line 661).
AvatarSynced(r) ==
  /\ r \in requests /\ r.owner[1] = "avatarSync" /\ r.resp # Null
  /\ LoadStateDone(Val(r.resp))
  /\ requests' = requests \ {r}
  /\ UNCHANGED << mounted, active, timers, localVars, now, serverVars >>

(***************************************************************************)
(* The Attachment Staging Buffer (lines 576-604, 760).                     *)
(***************************************************************************)
Uuid(n) == << "uuid", n >>

DataUrlsOf(items) == { items[i].dataUrl : i \in DOMAIN items }

\* A loop that does not test next.length.
RECURSIVE AddLoopNoCap(_, _, _, _)
AddLoopNoCap(next, existing, dataUrls, uuids) ==
  IF dataUrls = << >> THEN next
  ELSE LET dataUrl == Head(dataUrls)
       IN IF dataUrl \notin existing
          THEN AddLoopNoCap(Append(next, [id |-> Uuid(uuids + 1), dataUrl |-> dataUrl]),
                            existing \cup {dataUrl}, Tail(dataUrls), uuids + 1)
          ELSE AddLoopNoCap(next, existing, Tail(dataUrls), uuids)

\* A loop that compares a candidate with the items staged before the call
\* only, not with those it has pushed itself.
RECURSIVE AddLoopForgets(_, _, _, _)
AddLoopForgets(next, existing, dataUrls, uuids) ==
  IF dataUrls = << >> THEN next
  ELSE LET dataUrl == Head(dataUrls)
       IN IF dataUrl \notin existing /\ Len(next) < MaxAttachments
          THEN AddLoopForgets(Append(next, [id |-> Uuid(uuids + 1), dataUrl |-> dataUrl]),
                              existing, Tail(dataUrls), uuids + 1)
          ELSE AddLoopForgets(next, existing, Tail(dataUrls), uuids)

\* The for loop of lines 580-585: next, existing and the number of UUIDs
\* drawn so far are its state.
RECURSIVE AddLoop(_, _, _, _)
AddLoop(next, existing, dataUrls, uuids) ==
  IF dataUrls = << >> THEN next
  ELSE LET dataUrl == Head(dataUrls)
       IN IF dataUrl \notin existing /\ Len(next) < MaxAttachments
          THEN AddLoop(Append(next, [id |-> Uuid(uuids + 1), dataUrl |-> dataUrl]),
                       existing \cup {dataUrl}, Tail(dataUrls), uuids + 1)
          ELSE AddLoop(next, existing, Tail(dataUrls), uuids)

\* The updater passed to setAttachments (lines 577-587).
AddAttachmentDataUrls(prev, dataUrls, uuids) ==
  AddLoop(prev, DataUrlsOf(prev), dataUrls, uuids)

\* A file is [image, result]: whether its type starts with "image/", and
\* what FileReader gives: Null (an error) or Some(string), the string being
\* a sequence and possibly the empty one.
\* files.filter(image) ... fileToDataUrl(f).catch(() => null) ...
\* converted.filter(Boolean): lines 591-593 and 598-603.
RECURSIVE ConvertFiles(_)
ConvertFiles(files) ==
  IF files = << >> THEN << >>
  ELSE LET f == Head(files)
       IN IF f.image /\ f.result # Null /\ Val(f.result) # << >>
          THEN << Val(f.result) >> \o ConvertFiles(Tail(files))
          ELSE ConvertFiles(Tail(files))

\* handlePickFiles up to its await (lines 590-592): FileReader starts.
HandlePickFiles(files) ==
  /\ Screen = "chat"
  /\ reading' = reading \cup {ConvertFiles(files)}
  /\ UNCHANGED << token, reactVars, mounted, active, timers, requests,
                  counterVars, now, serverVars >>

\* handlePaste up to its await (lines 597-602): nothing happens unless the
\* clipboard holds an image item.
HandlePaste(items) ==
  /\ Screen = "chat"
  /\ reading' = IF \E i \in DOMAIN items : items[i].image
                THEN reading \cup {ConvertFiles(items)}
                ELSE reading
  /\ UNCHANGED << token, reactVars, mounted, active, timers, requests,
                  counterVars, now, serverVars >>

\* Either handler after await Promise.all: addAttachmentDataUrls(converted).
FilesConverted(dataUrls) ==
  /\ dataUrls \in reading
  /\ reading' = reading \ {dataUrls}
  /\ LET next == AddAttachmentDataUrls(attachments, dataUrls, nextUuid)
     IN /\ attachments' = IF mounted THEN next ELSE attachments
        /\ nextUuid' = IF mounted THEN nextUuid + (Len(next) - Len(attachments))
                     ELSE nextUuid
  /\ UNCHANGED << token, ready, me, users, messages, pendingMessages, text,
                  error, renderVars, mounted, active, timers, requests,
                  nextAuth, nextTmp, nextOp, now, serverVars >>

\* The remove button of a staged item (line 760).
RemoveAttachment(id) ==
  /\ Screen = "chat"
  /\ \E i \in DOMAIN attachments : attachments[i].id = id
  /\ attachments' = RemoveById(attachments, id)
  /\ UNCHANGED << token, ready, me, users, messages, pendingMessages, text,
                  error, renderVars, mounted, active, timers, requests,
                  localVars, now, serverVars >>

(***************************************************************************)
(* The Scroll Anchoring Controller (lines 497-514, 726, 751).              *)
(***************************************************************************)
\* The user scrolls the messages to distance d from the bottom; the scroll
\* event runs checkScrollPosition (lines 497-504).
UserScroll(d) ==
  /\ NodePresent
  /\ d >= 0 /\ d <= MaxScrollTop(allMessages)
  /\ scrollTop' = MaxScrollTop(allMessages) - d
  /\ stickToBottom' = NearBottom(d)
  /\ showScrollButton' = ~NearBottom(d)
  /\ UNCHANGED << token, appVars, authenticated, allMessages, authError,
                  mounted, active, timers, requests, localVars, now,
                  serverVars >>

\* The jump-to-bottom button: scrollToBottom(true), line 751.
JumpToBottom ==
  /\ NodePresent
  /\ showScrollButton
  /\ scrollTop' = MaxScrollTop(allMessages)
  /\ stickToBottom' = TRUE
  /\ showScrollButton' = FALSE
  /\ UNCHANGED << token, appVars, authenticated, allMessages, authError,
                  mounted, active, timers, requests, localVars, now,
                  serverVars >>

(***************************************************************************)
(* The state after construction: the first render and the polling effect   *)
(* (lines 467-482, 534-549).  The browser may hold a token of an earlier   *)
(* visit, which the server may or may not still accept.                    *)
(***************************************************************************)
InitWith(storedToken, sessions) ==
  /\ token = storedToken
  /\ ready = (storedToken = Null)
  /\ me = Null
  /\ users = << >>
  /\ messages = << >>
  /\ pendingMessages = << >>
  /\ text = << >>
  /\ error = ""
  /\ showScrollButton = FALSE
  /\ attachments = << >>
  /\ stickToBottom = TRUE
  /\ allMessages = << >>
  /\ authenticated = FALSE
  /\ authError = ""
  /\ scrollTop = 0
  /\ mounted = TRUE
  /\ active = (storedToken # Null)
  /\ timers = << >>
  /\ requests = IF storedToken = Null THEN {}
                ELSE {LoadStateCall(LoopId, storedToken)}
  /\ nextAuth = 0
  /\ nextTmp = 0
  /\ nextUuid = 0
  /\ nextOp = 0
  /\ now = 1
  /\ srvSessions = sessions
  /\ srvMessages = << >>
  /\ srvAvatar = Null
  /\ reading = {}

Init ==
  \E storedToken \in {Null, Some(0)} :
    \E sessions \in (IF storedToken = Null THEN {{}} ELSE {{}, {0}}) :
      InitWith(storedToken, sessions)

(***************************************************************************)
(* Spec: the session gate and the polling loops.  The user logs in and     *)
(* out; the mount-time loop and the chains started by onAuth poll.         *)
(***************************************************************************)
\* How many times the user may submit the login form, log out or send.
MaxUserActions == 2

UserActions == nextAuth + nextOp + nextTmp
MayAct == UserActions < MaxUserActions

Next ==
  \/ \E r \in requests : ServerState(r)
  \/ \E r \in requests : ServerLoginOk(r)
  \/ \E r \in requests : ServerLoginRejected(r)
  \/ \E r \in requests : ServerLogout(r)
  \/ \E r \in requests : NetworkFailure(r)
  \/ \E r \in requests : LoopLoaded(r)
  \/ \E r \in requests : AuthDone(r)
  \/ \E r \in requests : OnAuthLoaded(r)
  \/ \E r \in requests : ScheduleLoaded(r)
  \/ \E r \in requests : LogoutDone(r)
  \/ LoopTimer
  \/ \E i \in DOMAIN timers : ScrollTimer(i)
  \/ \E i \in DOMAIN timers : ScheduleTimer(i)
  \/ (MayAct /\ AuthSubmit)
  \/ (MayAct /\ Logout)

Spec == Init /\ [][Next]_vars

(***************************************************************************)
(* C5.  When a state fetch fails with 'unauthorized', the stored token is  *)
(* removed, me becomes null and the unauthenticated screen is shown; and   *)
(* when a polling loop (the mount loop or a chain's schedule) received the *)
(* response, it sets no timer and sends no request.                        *)
(***************************************************************************)
IsUnauthorized(r) ==
  r.path = "state" /\ r.resp # Null /\ ~Val(r.resp).ok
  /\ Val(r.resp).error = Unauthorized

TimerIds(queue) == { queue[i].id : i \in DOMAIN queue }

C5_UnauthorizedEndsSession ==
  [][\A r \in requests :
       (IsUnauthorized(r) /\ r \notin requests') =>
         /\ token' = Null
         /\ me' = Null
         /\ Screen' = "auth"
         /\ error' = Unauthorized
         /\ r.owner[1] \in {"loop", "schedule"} =>
              /\ requests' = requests \ {r}
              /\ TimerIds(timers') \subseteq TimerIds(timers)
              /\ r.owner \notin TimerIds(timers')]_vars

\* A session that had loaded the room was ended by an unauthorized poll,
\* and nothing is left polling.
C5_Witness ==
  /\ error = Unauthorized /\ token = Null /\ me = Null /\ Screen = "auth"
  /\ users # << >>
  /\ requests = {} /\ timers = << >>

(***************************************************************************)
(* SpecMerge: the merge of lines 484-488 on bounded inputs.  The chat      *)
(* screen is shown; the authoritative list is any list the server may have *)
(* sent (entries in any order, createdAt possibly missing or 0) and the    *)
(* queue any list of optimistic entries (createdAt is a Date.now()).       *)
(***************************************************************************)
MaxMergeLen == 2
MaxStamp == 1

\* -1 stands for "no createdAt".
MergeEntry(id, stamp) ==
  IF stamp = -1 THEN [id |-> id] ELSE [id |-> id, createdAt |-> stamp]

MergeMessages ==
  { MergeEntry(<< "srv", i >>, t) : i \in 1..MaxMergeLen, t \in -1..MaxStamp }
MergePendings ==
  { [id |-> TempId(i), createdAt |-> t, pending |-> TRUE] :
      i \in 1..MaxMergeLen, t \in 1..MaxStamp }

\* The lists of at most MaxMergeLen entries of S with distinct ids.
MergeLists(S) ==
  { l \in UNION { [1..k -> S] : k \in 0..MaxMergeLen } :
      \A i, j \in DOMAIN l : i # j => l[i].id # l[j].id }

InitMerge ==
  /\ messages \in MergeLists(MergeMessages)
  /\ pendingMessages \in MergeLists(MergePendings)
  /\ allMessages = MergeTimeline(messages, pendingMessages)
  /\ token = Some(0)
  /\ ready = TRUE
  /\ me = Some([nickname |-> Nickname, avatar |-> Null])
  /\ users = << >>
  /\ text = << >>
  /\ error = ""
  /\ showScrollButton = FALSE
  /\ attachments = << >>
  /\ stickToBottom = TRUE
  /\ authenticated = TRUE
  /\ authError = ""
  /\ scrollTop = MaxScrollTop(allMessages)
  /\ mounted = TRUE
  /\ active = TRUE
  /\ timers = << >>
  /\ requests = {}
  /\ nextAuth = 0
  /\ nextTmp = MaxMergeLen
  /\ nextUuid = 0
  /\ nextOp = 0
  /\ now = MaxStamp
  /\ srvSessions = {0}
  /\ srvMessages = << >>
  /\ srvAvatar = Null
  /\ reading = {}

\* setPendingMessages((prev) => prev.filter((m) => m.id !== tempId)) and
\* the render: the memo is recomputed.
MergeResolve(id) ==
  /\ \E i \in DOMAIN pendingMessages : pendingMessages[i].id = id
  /\ pendingMessages' = RemoveById(pendingMessages, id)
  /\ UNCHANGED << token, ready, me, users, messages, text, error, attachments >>
  /\ Render(FALSE, TRUE, stickToBottom)
  /\ UNCHANGED << mounted, active, timers, requests, localVars, now,
                  serverVars >>

\* setMessages gets the list that is now on screen and the queue is
\* emptied: the merge runs on an already merged timeline.
MergeAgain ==
  /\ messages' = allMessages
  /\ pendingMessages' = << >>
  /\ UNCHANGED << token, ready, me, users, text, error, attachments >>
  /\ Render(FALSE, TRUE, stickToBottom)
  /\ UNCHANGED << mounted, active, timers, requests, localVars, now,
                  serverVars >>

NextMerge ==
  \/ \E i \in 1..MaxMergeLen : MergeResolve(TempId(i))
  \/ MergeAgain

SpecMerge == InitMerge /\ [][NextMerge]_vars

\* The place of the entry with this id in a list of entries.
PlaceOf(list, id) == CHOOSE k \in DOMAIN list : list[k].id = id

(***************************************************************************)
(* C6.  The merged timeline is in ascending order of createdAt, an entry   *)
(* without createdAt counting as 0.                                        *)
(***************************************************************************)
C6_TimelineAscending ==
  \A i, j \in DOMAIN allMessages :
    i < j => CreatedAtOrZero(allMessages[i]) <= CreatedAtOrZero(allMessages[j])

\* The sort had to move entries, one of them without createdAt.
C6_Witness ==
  /\ allMessages # messages \o pendingMessages
  /\ \E i \in DOMAIN allMessages : "createdAt" \notin DOMAIN allMessages[i]
  /\ \E i \in DOMAIN allMessages : CreatedAtOrZero(allMessages[i]) > 0

(***************************************************************************)
(* C7.  The merge is stable: entries with equal createdAt (missing = 0)    *)
(* keep the order they have in messages followed by pendingMessages.       *)
(***************************************************************************)
C7_MergeStable ==
  /\ Len(allMessages) = Len(messages) + Len(pendingMessages)
  /\ \A i, j \in DOMAIN allMessages :
       (i < j /\ CreatedAtOrZero(allMessages[i]) = CreatedAtOrZero(allMessages[j]))
         => PlaceOf(messages \o pendingMessages, allMessages[i].id)
              < PlaceOf(messages \o pendingMessages, allMessages[j].id)

\* Two entries tie (one has no createdAt, the other has 0, or an
\* authoritative and an optimistic entry share a time) and the sort had
\* to move entries.
C7_Witness ==
  /\ allMessages # messages \o pendingMessages
  /\ \E i, j \in DOMAIN allMessages :
       /\ i < j
       /\ CreatedAtOrZero(allMessages[i]) = CreatedAtOrZero(allMessages[j])
       /\ \/ "createdAt" \notin DOMAIN allMessages[i]
          \/ "pending" \in DOMAIN allMessages[j]

(***************************************************************************)
(* C8.  The merge is idempotent: merging the merged timeline with no new   *)
(* entries gives the same timeline.                                        *)
(***************************************************************************)
C8_MergeIdempotent ==
  /\ MergeTimeline(allMessages, << >>) = allMessages
  /\ MergeTimeline(messages, pendingMessages) = allMessages

\* The merged timeline was merged again (it is now the authoritative list)
\* and holds entries that tie.
C8_Witness ==
  /\ messages = allMessages /\ pendingMessages = << >>
  /\ \E i \in DOMAIN allMessages : "pending" \in DOMAIN allMessages[i]
  /\ \E i, j \in DOMAIN allMessages :
       i < j /\ CreatedAtOrZero(allMessages[i]) = CreatedAtOrZero(allMessages[j])

(***************************************************************************)
(* SpecQueue: the optimistic message queue.  The page is opened with a     *)
(* stored token the server accepts; the mount loop polls while the user    *)
(* types and sends, and may log out.                                       *)
(***************************************************************************)
\* How many times the user may send or log out.
MaxQueueActions == 2

QueueMayAct == nextTmp + nextOp < MaxQueueActions

InitQueue == InitWith(Some(0), {0})

\* What the user types: a message, or only whitespace.
QueueTexts == { << "h" >>, << " " >> }

NextQueue ==
  \/ \E r \in requests : ServerState(r)
  \/ \E r \in requests : ServerMessage(r)
  \/ \E r \in requests : ServerLogout(r)
  \/ \E r \in requests : NetworkFailure(r)
  \/ \E r \in requests : LoopLoaded(r)
  \/ LoopTimer
  \/ \E t \in QueueTexts : QueueMayAct /\ text # t /\ SetText(t)
  \/ (QueueMayAct /\ SendMessage)
  \/ \E r \in requests : SendDone(r)
  \/ \E r \in requests : SendSynced(r)
  \/ (QueueMayAct /\ Logout)
  \/ \E r \in requests : LogoutDone(r)

SpecQueue == InitQueue /\ [][NextQueue]_vars

\* Every send request is answered (by the server or by a failure) and the
\* event loop runs the continuation of an answered request.
SendAnswered ==
  \E r \in requests : r.path = "message" /\ (ServerMessage(r) \/ NetworkFailure(r))
SendResumed == \E r \in requests : SendDone(r)

SpecQueueFair ==
  SpecQueue /\ WF_vars(SendAnswered) /\ WF_vars(SendResumed)

Queued(n) == \E i \in DOMAIN pendingMessages : pendingMessages[i].id = TempId(n)

(***************************************************************************)
(* C2.  Every entry added to pendingMessages is eventually removed from    *)
(* it, given that every send request eventually resolves.                  *)
(***************************************************************************)
C2_PendingEventuallyRemoved ==
  \A n \in 1..MaxQueueActions : Queued(n) ~> ~Queued(n)

\* A send failed: its entry has left the queue and the error is shown.
C2_Witness ==
  /\ nextTmp >= 1 /\ ~Queued(1)
  /\ error = RequestFailed
  /\ \A r \in requests : r.owner # << "send", 1 >>
  /\ Screen = "chat"

(***************************************************************************)
(* C3.  At most one GET /api/state is in flight at any time, and a polling *)
(* delay is pending only when the loop's fetch has completed.              *)
(***************************************************************************)
C3_OneFetchInFlight ==
  /\ Cardinality(StateFetches) <= 1
  /\ (\E i \in DOMAIN timers : timers[i].id = LoopId) => StateFetches = {}

(***************************************************************************)
(* SpecTeardown: Spec, and React may unmount App, which runs the cleanup   *)
(* of the polling effect.                                                  *)
(***************************************************************************)
NextTeardown ==
  \/ Next
  \/ Cleanup

SpecTeardown == Init /\ [][NextTeardown]_vars

\* The callers whose GET /api/state is in flight.
FetchOwners == { r.owner : r \in StateFetches }

\* The timers that call loadState.
PollTimers ==
  { timers[i].id : i \in { j \in DOMAIN timers : timers[j].id[1] \in {"loop", "schedule"} } }

(***************************************************************************)
(* C4.  Once the synchronizer was stopped, no response of a state fetch    *)
(* changes state and no further fetch is scheduled or sent; stopping again *)
(* changes nothing.                                                        *)
(***************************************************************************)
C4_StoppedStaysQuiet ==
  [][~mounted =>
       /\ UNCHANGED << token, me, users, messages, error, ready >>
       /\ FetchOwners' \subseteq FetchOwners
       /\ PollTimers' \subseteq PollTimers]_vars

(***************************************************************************)
(* SpecStaging: the attachment staging buffer.  The chat screen is shown   *)
(* (the page was opened with a valid token and the first poll came back);  *)
(* the user picks and pastes files, removes the oldest staged item and     *)
(* sends, and logs out (once).                                             *)
(***************************************************************************)
\* How many distinct images the user has, how many UUIDs may be drawn, and
\* how many batches FileReader may be converting at once.
MaxImages == 7
MaxUuids == 7
MaxReading == 2

DataUrl(n) == << "data:image/png;base64", n >>
ImageFile(n) == [image |-> TRUE, result |-> Some(DataUrl(n))]

\* The images first..last, in that order.
ImageRun(first, last) ==
  [i \in 1..(last - first + 1) |-> ImageFile(first + i - 1)]

\* The files of one pick: the first images, the later images (the two
\* runs share images and together exceed the cap), and an image after a
\* text file, an unreadable image and an image that converts to the empty
\* string.
FileBatches ==
  { ImageRun(1, MaxImages - 3),
    ImageRun(MaxImages - 4, MaxImages),
    << [image |-> FALSE, result |-> Some(DataUrl(2))],
       [image |-> TRUE, result |-> Null],
       [image |-> TRUE, result |-> Some(<< >>)],
       ImageFile(MaxImages) >> }

\* The items of one paste: the same image twice, or text only.
PasteBatches ==
  { << ImageFile(1), ImageFile(1) >>,
    << [image |-> FALSE, result |-> Some(DataUrl(2))] >> }

InitStaging ==
  /\ token = Some(0)
  /\ ready = TRUE
  /\ me = Some([nickname |-> Nickname, avatar |-> Null])
  /\ users = << [nickname |-> Nickname, avatar |-> Null, online |-> TRUE] >>
  /\ messages = << >>
  /\ pendingMessages = << >>
  /\ text = << >>
  /\ error = ""
  /\ showScrollButton = FALSE
  /\ attachments = << >>
  /\ stickToBottom = TRUE
  /\ allMessages = << >>
  /\ authenticated = TRUE
  /\ authError = ""
  /\ scrollTop = 0
  /\ mounted = TRUE
  /\ active = TRUE
  /\ timers = << [id |-> LoopId, delay |-> PollDelay] >>
  /\ requests = {}
  /\ nextAuth = 0
  /\ nextTmp = 0
  /\ nextUuid = 0
  /\ nextOp = 0
  /\ now = 1
  /\ srvSessions = {0}
  /\ srvMessages = << >>
  /\ srvAvatar = Null
  /\ reading = {}

StagingMayRead == Cardinality(reading) < MaxReading /\ nextUuid < MaxUuids

NextStaging ==
  \/ \E files \in FileBatches : StagingMayRead /\ HandlePickFiles(files)
  \/ \E items \in PasteBatches : StagingMayRead /\ HandlePaste(items)
  \/ \E dataUrls \in reading : FilesConverted(dataUrls)
  \/ (attachments # << >> /\ RemoveAttachment(attachments[1].id))
  \/ (pendingMessages = << >> /\ SendMessage)
  \/ \E r \in requests : NetworkFailure(r)
  \/ \E r \in requests : SendDone(r)
  \/ ((\A r \in requests : r.path # "logout") /\ Logout)
  \/ \E r \in requests : LogoutDone(r)

SpecStaging == InitStaging /\ [][NextStaging]_vars

(***************************************************************************)
(* C1.  The staging buffer never holds two items with the same dataUrl,    *)
(* and never more than 6 items.                                            *)
(***************************************************************************)
C1_StagingUniqueAndCapped ==
  /\ Len(attachments) <= MaxAttachments
  /\ \A i, j \in DOMAIN attachments :
       i # j => attachments[i].dataUrl # attachments[j].dataUrl

\* The buffer is full: the run of later images was added to the first
\* images, its duplicates were skipped and its last image found no room.
C1_Witness ==
  /\ Len(attachments) = MaxAttachments
  /\ reading = {}
  /\ DataUrl(MaxAttachments) \in DataUrlsOf(attachments)
  /\ DataUrl(MaxImages) \notin DataUrlsOf(attachments)

(***************************************************************************)
(* SpecScroll: the scroll anchoring controller.  The chat screen is shown; *)
(* another participant posts, the mount loop polls, the user scrolls,      *)
(* jumps to the bottom and sends, and a send may fail.                     *)
(***************************************************************************)
\* How many messages the other participant posts and the user sends.
MaxHistory == 2
MaxScrollSends == 1

InitScroll == InitStaging

\* Where the user stops scrolling, as a distance from the bottom: at the
\* bottom, just under the threshold, at the threshold, and at the top.
ScrollStops ==
  { 0, NearBottomThreshold - 1, NearBottomThreshold, MaxScrollTop(allMessages) }

NextScroll ==
  \/ (Len(srvMessages) < MaxHistory /\ OtherUserPosts)
  \/ \E r \in requests : ServerState(r)
  \/ \E r \in requests : ServerMessage(r)
  \/ \E r \in requests : NetworkFailure(r)
  \/ \E r \in requests : LoopLoaded(r)
  \/ LoopTimer
  \/ \E d \in ScrollStops : UserScroll(d)
  \/ JumpToBottom
  \/ (nextTmp < MaxScrollSends /\ text = << >> /\ SetText(<< "h" >>))
  \/ (nextTmp < MaxScrollSends /\ SendMessage)
  \/ \E r \in requests : SendDone(r)
  \/ \E r \in requests : SendSynced(r)

SpecScroll == InitScroll /\ [][NextScroll]_vars

\* A step that changes the merged timeline while the messages are shown.
TimelineChanges == allMessages' # allMessages /\ NodePresent /\ NodePresent'

AtBottom == scrollTop = MaxScrollTop(allMessages)

(***************************************************************************)
(* C9.  Whenever the merged timeline changes while the controller is       *)
(* anchored, the viewport is scrolled to the bottom, the controller stays  *)
(* anchored and the jump-to-bottom affordance is hidden.                   *)
(***************************************************************************)
C9_AnchoredFollows ==
  [][(TimelineChanges /\ stickToBottom) =>
       (AtBottom' /\ stickToBottom' /\ ~showScrollButton')]_vars

\* Polls brought the other participant's messages, more than the viewport
\* holds, and the viewport is at the bottom, anchored.
C9_Witness ==
  /\ NodePresent /\ stickToBottom /\ AtBottom /\ ~showScrollButton
  /\ Len(messages) = MaxHistory /\ MaxScrollTop(allMessages) > 0
  /\ nextTmp = 0

(***************************************************************************)
(* C10 as claimed.  Whenever the merged timeline changes while the         *)
(* controller is free-scrolling, the scroll position is unchanged and the  *)
(* jump-to-bottom affordance stays visible.                                *)
(***************************************************************************)
C10_FreeScrollUntouched ==
  [][(TimelineChanges /\ ~stickToBottom) =>
       (scrollTop' = scrollTop /\ showScrollButton')]_vars

(***************************************************************************)
(* C10.  Whenever the merged timeline changes while the controller is      *)
(* free-scrolling, by anything but the user's own submit, and the content  *)
(* still reaches the scroll position, the scroll position is unchanged,    *)
(* the controller stays free-scrolling and the affordance stays visible.   *)
(* The user's own submit scrolls to the bottom, anchors and hides the      *)
(* affordance.                                                             *)
(***************************************************************************)
C10_FreeScrollKept ==
  [][/\ (TimelineChanges /\ ~stickToBottom /\ nextTmp' = nextTmp
           /\ scrollTop <= MaxScrollTop(allMessages'))
         => (scrollTop' = scrollTop /\ showScrollButton' /\ ~stickToBottom')
     /\ (TimelineChanges /\ nextTmp' # nextTmp)
         => (AtBottom' /\ stickToBottom' /\ ~showScrollButton')]_vars

\* The user has scrolled up and a poll has brought a message since: the
\* newest message is below the viewport and the affordance shows.
C10_Witness ==
  /\ NodePresent /\ ~stickToBottom /\ showScrollButton
  /\ Len(messages) = MaxHistory
  /\ MaxScrollTop(allMessages) - scrollTop >= NearBottomThreshold + MessageHeight

\* The step that runs logout's continuation for the answered request r.
LogoutResolves(r) ==
  r \in requests /\ r.path = "logout" /\ r.resp # Null /\ r \notin requests'

(***************************************************************************)
(* C11.  When logout's server notification has resolved, whether it        *)
(* succeeded or failed, the stored token is removed, me is null, and       *)
(* users, messages and pendingMessages are empty.                          *)
(***************************************************************************)
C11_LogoutClearsSession ==
  [][\A r \in requests :
       LogoutResolves(r) =>
         /\ token' = Null
         /\ me' = Null
         /\ users' = << >>
         /\ messages' = << >>
         /\ pendingMessages' = << >>
         /\ allMessages' = << >>]_vars

\* The user had sent a message and logged out; the notification failed
\* (the server still holds the session) and the session is cleared.
C11_Witness ==
  /\ nextOp = 1 /\ nextTmp = 1
  /\ \A r \in requests : r.path # "logout"
  /\ 0 \in srvSessions
  /\ token = Null /\ me = Null
  /\ users = << >> /\ messages = << >> /\ pendingMessages = << >>

(***************************************************************************)
(* C12.  After logout completes the compose text is empty, the attachment  *)
(* staging buffer is empty and the error line is cleared.                  *)
(***************************************************************************)
C12_LogoutClearsCompose ==
  [][\A r \in requests :
       LogoutResolves(r) =>
         (text' = << >> /\ attachments' = << >> /\ error' = "")]_vars

(***************************************************************************)
(* SpecLogoutFair: SpecQueue, where the event loop runs every timer that   *)
(* is due and every continuation whose request was answered, and every     *)
(* request but POST /api/logout is answered.  Nothing says that the        *)
(* logout notification ever gets a response.                               *)
(***************************************************************************)
LogoutResumed == \E r \in requests : LogoutDone(r)
StateAnswered == \E r \in requests : ServerState(r)
LoopResumed == \E r \in requests : LoopLoaded(r)
SyncResumed == \E r \in requests : SendSynced(r)

SpecLogoutFair ==
  /\ SpecQueue
  /\ WF_vars(LogoutResumed)
  /\ WF_vars(LoopTimer) /\ WF_vars(StateAnswered) /\ WF_vars(LoopResumed)
  /\ WF_vars(SendAnswered) /\ WF_vars(SendResumed) /\ WF_vars(SyncResumed)

LogoutInFlight == \E r \in requests : r.path = "logout"

(***************************************************************************)
(* C13.  Once the user invokes logout, the token is eventually removed and *)
(* the in-memory state reset, even if POST /api/logout never receives a    *)
(* response.                                                               *)
(***************************************************************************)
C13_LogoutNeverBlocked ==
  LogoutInFlight ~> (token = Null /\ pendingMessages = << >>)

(***************************************************************************)
(* C14.  In every reachable state, me is non-null only if a session token  *)
(* is stored.                                                              *)
(***************************************************************************)
C14_IdentityNeedsToken == me # Null => token # Null

(***************************************************************************)
(* SpecSubmit: submit.  The chat screen is shown with the room's history   *)
(* loaded (the page was opened with a valid token and the first poll came  *)
(* back); the user types, stages images, scrolls and submits, and the      *)
(* mount loop polls.                                                       *)
(***************************************************************************)
\* How many times the user submits, and how many messages the history has.
MaxSubmits == 1
MaxBacklog == 2

Backlog ==
  [i \in 1..MaxBacklog |->
     SrvMessage(i, "bob", Null, [text |-> << "h" >>, attachments |-> << >>], 1)]

InitSubmit ==
  /\ token = Some(0)
  /\ ready = TRUE
  /\ me = Some([nickname |-> Nickname, avatar |-> Null])
  /\ users = << [nickname |-> Nickname, avatar |-> Null, online |-> TRUE] >>
  /\ messages = Backlog
  /\ pendingMessages = << >>
  /\ text = << >>
  /\ error = ""
  /\ showScrollButton = FALSE
  /\ attachments = << >>
  /\ stickToBottom = TRUE
  /\ allMessages = MergeTimeline(Backlog, << >>)
  /\ authenticated = TRUE
  /\ authError = ""
  /\ scrollTop = MaxScrollTop(Backlog)
  /\ mounted = TRUE
  /\ active = TRUE
  /\ timers = << [id |-> LoopId, delay |-> PollDelay] >>
  /\ requests = {}
  /\ nextAuth = 0
  /\ nextTmp = 0
  /\ nextUuid = 0
  /\ nextOp = 0
  /\ now = 1
  /\ srvSessions = {0}
  /\ srvMessages = Backlog
  /\ srvAvatar = Null
  /\ reading = {}

\* What the user types: a message, whitespace only, a message in whitespace.
SubmitTexts == { << "h" >>, << " " >>, << " ", "i", " " >> }

\* The images the user picks.
SubmitFiles == ImageRun(1, 2)

SubmitMayAct == nextTmp < MaxSubmits

NextSubmit ==
  \/ \E t \in SubmitTexts : SubmitMayAct /\ text # t /\ SetText(t)
  \/ (SubmitMayAct /\ attachments = << >> /\ reading = {}
        /\ HandlePickFiles(SubmitFiles))
  \/ \E dataUrls \in reading : FilesConverted(dataUrls)
  \/ \E d \in ScrollStops : UserScroll(d)
  \/ (SubmitMayAct /\ SendMessage)
  \/ \E r \in requests : ServerState(r)
  \/ \E r \in requests : ServerMessage(r)
  \/ \E r \in requests : NetworkFailure(r)
  \/ \E r \in requests : LoopLoaded(r)
  \/ LoopTimer
  \/ \E r \in requests : SendDone(r)
  \/ \E r \in requests : SendSynced(r)

SpecSubmit == InitSubmit /\ [][NextSubmit]_vars

\* The step that runs submit's continuation for its answered request r.
SendResolvesWith(r) ==
  r \in requests /\ r.path = "message" /\ r.resp # Null /\ r \notin requests'

Shown(n) == \E i \in DOMAIN allMessages : allMessages[i].id = TempId(n)

(***************************************************************************)
(* C16.  When the send request of a submit fails, the pending entry with   *)
(* that submit's temporary identifier is removed from the queue, the       *)
(* failure's message becomes the visible error, and the optimistic copy is *)
(* no longer displayed.                                                    *)
(***************************************************************************)
C16_FailedSendRemoved ==
  [][\A r \in requests :
       (SendResolvesWith(r) /\ ~Val(r.resp).ok) =>
         /\ ~Queued(r.owner[2])'
         /\ ~Shown(r.owner[2])'
         /\ error' = Val(r.resp).error]_vars

\* The first of two submits failed: its entry is gone, the error shows and
\* the second entry is still queued and displayed.
C16_Witness ==
  /\ nextTmp = 2 /\ ~Queued(1) /\ ~Shown(1) /\ Queued(2) /\ Shown(2)
  /\ error = RequestFailed
  /\ srvMessages = << >>
  /\ \A r \in requests : r.owner # << "send", 1 >>

(***************************************************************************)
(* C17.  When the send request of a submit succeeds, the pending entry     *)
(* with that submit's temporary identifier is removed and exactly one      *)
(* state fetch is sent at once, with no timer in between; when that fetch  *)
(* returns, submit sends nothing more.                                     *)
(***************************************************************************)
C17_SentThenSynced ==
  [][\A r \in requests :
       /\ (SendResolvesWith(r) /\ Val(r.resp).ok) =>
            /\ ~Queued(r.owner[2])'
            /\ requests' \ requests =
                 {LoadStateCall(<< "sendSync", r.owner[2] >>, token)}
            /\ Cardinality(StateFetches') = Cardinality(StateFetches) + 1
            /\ timers' = timers
       /\ (r.owner[1] = "sendSync" /\ r.resp # Null /\ r \notin requests') =>
            (requests' = requests \ {r} /\ timers' = timers)]_vars

\* The send succeeded: the entry has left the queue, the server holds the
\* message and the forced fetch is in flight.
C17_Witness ==
  /\ ~Queued(1)
  /\ Len(srvMessages) = 1
  /\ messages = << >>
  /\ \E r \in requests : r.owner = << "sendSync", 1 >> /\ r.resp = Null

(***************************************************************************)
(* C20.  Several sends may be in flight at once, and the resolution of one *)
(* of them, success or failure, takes out of the queue the entry with that *)
(* send's temporary identifier and nothing else: every other entry stays,  *)
(* in the same relative order, whatever order the responses arrive in.     *)
(***************************************************************************)
C20_ResolvesOnlyItsOwn ==
  [][\A r \in requests :
       SendResolvesWith(r) =>
         pendingMessages' =
           SelectSeq(pendingMessages, LAMBDA m : m.id # TempId(r.owner[2]))]_vars

\* Two sends were in flight together and the second resolved first: the
\* first entry is still queued and its request has not been taken up.
C20_Witness ==
  /\ nextTmp = 2
  /\ Queued(1) /\ ~Queued(2)
  /\ \E r \in requests : r.owner = << "send", 1 >>
  /\ \A r \in requests : r.owner # << "send", 2 >>

\* Nothing to send: the trimmed text is empty and no attachment is staged.
Blank == Trim(text) = << >> /\ attachments = << >>

(***************************************************************************)
(* C18.  submit is a no-op when the text is empty or whitespace-only and   *)
(* no attachment is staged: no pending entry is added, no send request is  *)
(* issued, and text, attachments, pendingMessages, error and the scroll    *)
(* anchor are unchanged.                                                   *)
(***************************************************************************)
C18_BlankSubmitIsNoOp ==
  [][/\ (Blank /\ SendMessage) =>
          UNCHANGED << text, attachments, pendingMessages, error,
                       stickToBottom, showScrollButton, scrollTop,
                       requests, nextTmp >>
     /\ Blank =>
          /\ nextTmp' = nextTmp
          /\ Len(pendingMessages') <= Len(pendingMessages)
          /\ { r.owner : r \in { q \in requests' : q.path = "message" } }
               \subseteq
             { r.owner : r \in { q \in requests : q.path = "message" } }]_vars

\* Only whitespace is typed, nothing is staged, the user has scrolled up
\* and may submit.
C18_Witness ==
  /\ Screen = "chat" /\ SubmitMayAct
  /\ text = << " " >> /\ attachments = << >>
  /\ ~stickToBottom /\ showScrollButton
  /\ pendingMessages = << >> /\ requests = {}

\* The entry submit appends for the compose text and staging buffer of the
\* current state.
Optimistic ==
  [id |-> TempId(nextTmp + 1),
   nickname |-> Val(me).nickname,
   avatar |-> Val(me).avatar,
   text |-> Trim(text),
   attachments |-> [i \in DOMAIN attachments |-> attachments[i].dataUrl],
   createdAt |-> now,
   pending |-> TRUE]

\* C19: the step of an accepted submit appends exactly one entry to the
\* queue, with pending = true, the local identity's nickname and avatar, the
\* trimmed text and the staged encoded images in staging order; it empties
\* the compose text and the staging buffer; and the one request it adds is
\* a send request that carries that same text and attachment sequence.
\* All of this is in place in the state in which the request is first in
\* flight, so before the request resolves.
C19_AcceptedSubmit ==
  [][nextTmp' # nextTmp =>
       /\ ~Blank
       /\ pendingMessages' = Append(pendingMessages, Optimistic)
       /\ text' = << >>
       /\ attachments' = << >>
       /\ \E r \in requests' :
            /\ requests' = requests \cup {r}
            /\ r \notin requests
            /\ r.path = "message"
            /\ r.owner = << "send", nextTmp' >>
            /\ r.resp = Null
            /\ Val(r.body).text = Optimistic.text
            /\ Val(r.body).attachments = Optimistic.attachments]_vars

\* The padded text was submitted with both picked images staged: the entry
\* holds the trimmed text and the two images in order, the compose area
\* is empty, and the send request has not resolved.
C19_Witness ==
  /\ Len(pendingMessages) = 1
  /\ pendingMessages[1].text = << "i" >>
  /\ pendingMessages[1].attachments =
       [i \in DOMAIN SubmitFiles |-> Val(SubmitFiles[i].result)]
  /\ text = << >>
  /\ attachments = << >>
  /\ \E r \in requests : r.owner = << "send", 1 >> /\ r.resp = Null

(***************************************************************************)
(* SpecSync: the queue across synchronization cycles.  The chat screen is  *)
(* shown; the user submits, time passes, another participant posts and     *)
(* the mount loop polls.                                                   *)
(***************************************************************************)
\* How many things may happen: a submit, a message posted by the other
\* participant, a tick of the clock.
MaxSyncEvents == 3

InitSync == InitStaging

PostsOfOthers ==
  Cardinality({ i \in DOMAIN srvMessages : srvMessages[i].nickname # Nickname })

\* now is 1 when the page is opened.
SyncEvents == nextTmp + PostsOfOthers + (now - 1)
SyncMayAct == SyncEvents < MaxSyncEvents

NextSync ==
  \/ (SyncMayAct /\ text = << >> /\ SetText(<< "h" >>))
  \/ (SyncMayAct /\ SendMessage)
  \/ (SyncMayAct /\ Tick)
  \/ (SyncMayAct /\ OtherUserPosts)
  \/ \E r \in requests : ServerState(r)
  \/ \E r \in requests : ServerMessage(r)
  \/ \E r \in requests : NetworkFailure(r)
  \/ \E r \in requests : LoopLoaded(r)
  \/ LoopTimer
  \/ \E r \in requests : SendDone(r)
  \/ \E r \in requests : SendSynced(r)

SpecSync == InitSync /\ [][NextSync]_vars

\* The step that delivers the successful response r of a state fetch to
\* loadState.
FetchSucceeds(r) ==
  /\ r \in requests /\ r.path = "state" /\ r.resp # Null /\ Val(r.resp).ok
  /\ r \notin requests'

\* The step that runs the continuation of submit n's answered send request.
SendResolves(n) ==
  \E r \in requests :
    r.owner = << "send", n >> /\ r.resp # Null /\ r \notin requests'

MaxEchoSubmits == 2

InitEcho == InitStaging

\* The text of the n-th submit: n letters.
EchoText(n) == [i \in 1..n |-> "h"]

EchoMayAct == nextTmp < MaxEchoSubmits

NextEcho ==
  \/ (EchoMayAct /\ text = << >> /\ SetText(EchoText(nextTmp + 1)))
  \/ (EchoMayAct /\ SendMessage)
  \/ \E r \in requests : ServerState(r)
  \/ \E r \in requests : ServerMessage(r)
  \/ \E r \in requests : NetworkFailure(r)
  \/ \E r \in requests : LoopLoaded(r)
  \/ LoopTimer
  \/ \E r \in requests : SendDone(r)
  \/ \E r \in requests : SendSynced(r)

SpecEcho == InitEcho /\ [][NextEcho]_vars

\* m is the authoritative message the server created for submit n.
CreatedFor(n, m) ==
  m.id[1] = "srv" /\ m.nickname = Nickname /\ m.text = EchoText(n)

(***************************************************************************)
(* C21.  The merged timeline never holds at the same time the pending      *)
(* entry of a submit and the authoritative message the server created for  *)
(* that submit.                                                            *)
(***************************************************************************)
C21_NeverShownTwice ==
  \A n \in 1..nextTmp :
    ~(Shown(n) /\ \E i \in DOMAIN allMessages : CreatedFor(n, allMessages[i]))

\* The ids of the messages in a list.
IdsOf(list) == { list[i].id : i \in DOMAIN list }

(***************************************************************************)
(* C22.  Every state response that is applied keeps each message the       *)
(* authoritative list already held: no message id that has appeared in     *)
(* messages leaves it, whatever order the responses of overlapping fetches *)
(* arrive in.  (The server's history only grows, and SpecSync has no       *)
(* logout.)                                                                *)
(***************************************************************************)
C22_NoMessageLost ==
  [][\A r \in requests :
       FetchSucceeds(r) => IdsOf(messages) \subseteq IdsOf(messages')]_vars

\* The step sends a GET /api/state.
StateIssued ==
  \E r \in requests' \ requests : r.path = "state" /\ r.resp = Null

(***************************************************************************)
(* C23.  While no token is stored (logout has removed it, or an            *)
(* unauthorized signal was processed) no GET /api/state is sent: a polling *)
(* tick that was already queued sends none.  The step of a successful      *)
(* authenticate stores a token, so it is not among these steps.            *)
(***************************************************************************)
C23_NoPollWithoutSession ==
  [][(token = Null /\ token' = Null) => ~StateIssued]_vars

(***************************************************************************)
(* SpecErrors: failures and the error line.  The chat screen is shown; the *)
(* user sends messages and uploads avatars, the mount loop polls, requests *)
(* fail and the server may end the session.                                *)
(***************************************************************************)
\* How many times the user may send or upload an avatar.
MaxErrorActions == 2

InitErrors == InitStaging

ErrorsMayAct == nextTmp + nextOp < MaxErrorActions

NextErrors ==
  \/ (ErrorsMayAct /\ text = << >> /\ SetText(<< "h" >>))
  \/ (ErrorsMayAct /\ SendMessage)
  \/ (ErrorsMayAct /\ UploadAvatar(ImageFile(1)))
  \/ ServerExpire(0)
  \/ \E r \in requests : ServerState(r)
  \/ \E r \in requests : ServerMessage(r)
  \/ \E r \in requests : ServerAvatar(r)
  \/ \E r \in requests : NetworkFailure(r)
  \/ \E r \in requests : LoopLoaded(r)
  \/ LoopTimer
  \/ \E r \in requests : SendDone(r)
  \/ \E r \in requests : SendSynced(r)
  \/ \E r \in requests : AvatarDone(r)
  \/ \E r \in requests : AvatarSynced(r)

SpecErrors == InitErrors /\ [][NextErrors]_vars

\* The step that hands the unauthorized signal of request r to its caller.
UnauthorizedDelivered(r) ==
  /\ r \in requests /\ r.resp # Null /\ r \notin requests'
  /\ ~Val(r.resp).ok /\ Val(r.resp).error = Unauthorized

(***************************************************************************)
(* C24.  An unauthorized signal from POST /api/message, POST /api/avatar   *)
(* or GET /api/state removes the token and shows the unauthenticated       *)
(* screen.                                                                 *)
(***************************************************************************)
C24_AnyUnauthorizedEndsSession ==
  [][\A r \in requests :
       (UnauthorizedDelivered(r) /\ r.path \in {"message", "avatar", "state"}) =>
         (token' = Null /\ Screen' = "auth")]_vars

\* The step that hands a failure other than the unauthorized signal to the
\* loadState a polling loop (the mount loop or a chain's schedule) called.
PollFailed(r) ==
  /\ r \in requests /\ r.path = "state" /\ r.owner[1] \in {"loop", "schedule"}
  /\ r.resp # Null /\ r \notin requests'
  /\ ~Val(r.resp).ok /\ Val(r.resp).error # Unauthorized

(***************************************************************************)
(* C25.  When a polling fetch fails with an error other than               *)
(* 'unauthorized', the error text is set, the token, me, users and         *)
(* messages are left as they are, no request is sent in that step and,     *)
(* the session being still stored, the loop sets its next timer with the   *)
(* same fixed delay, however many failures came before; and a fetch that   *)
(* succeeds clears the error.                                              *)
(***************************************************************************)
C25_PollFailureKeepsPolling ==
  [][\A r \in requests :
       /\ PollFailed(r) =>
            /\ error' = Val(r.resp).error
            /\ UNCHANGED << token, me, users, messages >>
            /\ requests' = requests \ {r}
            /\ token # Null =>
                 timers' = Append(timers, [id |-> r.owner, delay |-> PollDelay])
       /\ FetchSucceeds(r) => error' = ""]_vars

\* A poll failed on the chat screen: the error is shown, the session and
\* the loaded room are as before, and the loop's next tick is queued.
C25_Witness ==
  /\ Screen = "chat"
  /\ error = RequestFailed
  /\ token # Null /\ me # Null /\ users # << >>
  /\ requests = {}
  /\ \E i \in DOMAIN timers : timers[i] = [id |-> LoopId, delay |-> PollDelay]

(***************************************************************************)
(* SpecSendFailure: the error line after a failed send.  The chat screen   *)
(* is shown and the session stays valid; the user sends, the mount loop    *)
(* polls, and only send requests fail, so that an error on the screen was  *)
(* set by a failed send.                                                   *)
(***************************************************************************)
\* How many times the user submits.
MaxFailureSubmits == 2

InitSendFailure == InitStaging

SendFailureMayAct == nextTmp < MaxFailureSubmits

NextSendFailure ==
  \/ (SendFailureMayAct /\ text = << >> /\ SetText(<< "h" >>))
  \/ (SendFailureMayAct /\ SendMessage)
  \/ \E r \in requests : ServerState(r)
  \/ \E r \in requests : ServerMessage(r)
  \/ \E r \in requests : r.path = "message" /\ NetworkFailure(r)
  \/ \E r \in requests : LoopLoaded(r)
  \/ LoopTimer
  \/ \E r \in requests : SendDone(r)
  \/ \E r \in requests : SendSynced(r)

SpecSendFailure == InitSendFailure /\ [][NextSendFailure]_vars

\* The step that completes a successful send: it hands the acknowledgement
\* to sendMessage, or the forced fetch's successful response.
SendSucceeds ==
  \E r \in requests :
    /\ r.owner[1] \in {"send", "sendSync"}
    /\ r.resp # Null /\ Val(r.resp).ok /\ r \notin requests'

(***************************************************************************)
(* C26.  The error set by a failed send stays on the screen until a later  *)
(* send succeeds: no other step, a polling fetch in particular, clears it. *)
(***************************************************************************)
C26_ErrorOutlivesPolls ==
  [][(error # "" /\ error' = "") => SendSucceeds]_vars

\* A logout has run to its end: fewer logout requests are in flight than
\* were sent (SpecQueue sends no avatar request, so nextOp counts logouts).
LoggedOut == Cardinality({ r \in requests : r.path = "logout" }) < nextOp

\* The step that hands the response of r to its caller, r being a request
\* sent while a token was stored (api reads the token when it is called).
LateResponse(r) ==
  r \in requests /\ r.resp # Null /\ r \notin requests' /\ r.tok # Null

(***************************************************************************)
(* C27.  Once logout has reset the in-memory state, the response to a      *)
(* request sent before the logout changes nothing: me, users, messages,    *)
(* pendingMessages and error stay as logout left them.  (SpecQueue has no  *)
(* authenticate.)                                                          *)
(***************************************************************************)
C27_LateResponseIsNoOp ==
  [][\A r \in requests :
       (LoggedOut /\ LateResponse(r)) =>
         UNCHANGED << me, users, messages, pendingMessages, error >>]_vars

\* The step that hands onAuth the response of the loadState it called after
\* a successful login or register.
AuthenticateCompletes ==
  \E r \in requests : r.owner[1] = "onAuth" /\ r.resp # Null /\ r \notin requests'

\* The step that hands AuthScreen.submit the failure of its request r.
AuthFailed(r) ==
  /\ r \in requests /\ r.path = "login" /\ r.resp # Null /\ r \notin requests'
  /\ ~Val(r.resp).ok

(***************************************************************************)
(* C28.  The screen goes from the unauthenticated screen to the chat       *)
(* screen only in the step that completes a successful authenticate; a     *)
(* polling response alone never does that; and a failed authenticate       *)
(* stores no token and leaves the unauthenticated screen shown.            *)
(***************************************************************************)
C28_OnlyAuthenticateOpensChat ==
  [][/\ (Screen = "auth" /\ Screen' = "chat") => AuthenticateCompletes
     /\ \A r \in requests :
          (AuthFailed(r) /\ Screen = "auth") =>
            (token' = token /\ Screen' = "auth")]_vars

\* A step in which the messages viewport is scrolled, by the user, by
\* scrollToBottom or by the browser: the scroll event runs
\* checkScrollPosition.
ScrollEvent == NodePresent /\ NodePresent' /\ scrollTop' # scrollTop

(***************************************************************************)
(* C29.  After every scroll event, with distance = scrollHeight -          *)
(* scrollTop - clientHeight: the controller is anchored exactly when the   *)
(* distance is below the threshold of 90, and the jump-to-bottom           *)
(* affordance is visible exactly when the controller is free-scrolling.    *)
(***************************************************************************)
C29_ScrollEventSetsAnchor ==
  [][ScrollEvent =>
       /\ stickToBottom' = (DistanceToBottom' < NearBottomThreshold)
       /\ showScrollButton' = ~stickToBottom']_vars

\* The user stopped exactly at the threshold: free-scrolling, with the
\* affordance shown.
C29_Witness ==
  /\ NodePresent
  /\ DistanceToBottom = NearBottomThreshold
  /\ ~stickToBottom /\ showScrollButton

\* The candidates that are not in seen, each at its first occurrence, in
\* candidate order.
RECURSIVE FirstOccurrences(_, _)
FirstOccurrences(seen, candidates) ==
  IF candidates = << >> THEN << >>
  ELSE IF Head(candidates) \in seen
       THEN FirstOccurrences(seen, Tail(candidates))
       ELSE << Head(candidates) >>
              \o FirstOccurrences(seen \cup {Head(candidates)}, Tail(candidates))

\* The encoded images of staged items, in staging order.
StagedUrls(items) == [i \in DOMAIN items |-> items[i].dataUrl]

(***************************************************************************)
(* C30.  Adding a batch of candidates to the staging buffer gives the      *)
(* items staged before, unchanged and in their order, followed in          *)
(* candidate order by each candidate that is neither staged already nor    *)
(* earlier in the batch, as far as the total of 6 allows; the candidates   *)
(* dropped set no error and nothing else changes.                          *)
(***************************************************************************)
C30_AddAppendsNewUpToCap ==
  [][\A dataUrls \in reading :
       dataUrls \notin reading' =>
         LET fresh == FirstOccurrences(DataUrlsOf(attachments), dataUrls)
             room == MaxAttachments - Len(attachments)
             added == SubSeq(fresh, 1, Min(room, Len(fresh)))
         IN /\ StagedUrls(attachments') = StagedUrls(attachments) \o added
            /\ SubSeq(attachments', 1, Len(attachments)) = attachments
            /\ UNCHANGED << error, text, pendingMessages, messages, users, me,
                            token, requests, timers >>]_vars

\* The later images were added to the first images: those staged already
\* were skipped, the buffer filled up in order and the last image was
\* dropped without an error.
C30_Witness ==
  /\ StagedUrls(attachments) = [i \in 1..MaxAttachments |-> DataUrl(i)]
  /\ nextUuid = MaxAttachments
  /\ reading = {}
  /\ error = ""

(***************************************************************************)
(* C31.  Whenever the chat screen is the one rendered (ready and the       *)
(* memoized authenticated flag), a token is stored and me is non-null; and *)
(* every step that removes the token leaves me null.                       *)
(***************************************************************************)
C31_ChatHasSession ==
  /\ [](Screen = "chat" => (token # Null /\ me # Null))
  /\ [][(token # Null /\ token' = Null) => me' = Null]_vars

\* The user logged out and logged in again: the chat screen is rendered
\* with the token of the second session.
C31_Witness ==
  /\ Screen = "chat"
  /\ nextOp = 1 /\ nextAuth = 1
  /\ token = Some(1) /\ me # Null

(***************************************************************************)
(* C32.  In every state each entry of pendingMessages belongs to a send    *)
(* request of the same submit whose continuation has not run yet, and the  *)
(* temporary identifiers in the queue are pairwise distinct; and the queue *)
(* grows only by the one entry of an accepted submit.                      *)
(***************************************************************************)
C32_PendingHasOpenSend ==
  /\ [](/\ \A i \in DOMAIN pendingMessages :
              \E r \in requests :
                /\ r.path = "message"
                /\ pendingMessages[i].id = TempId(r.owner[2])
        /\ \A i, j \in DOMAIN pendingMessages :
              i # j => pendingMessages[i].id # pendingMessages[j].id)
  /\ [][Len(pendingMessages') > Len(pendingMessages) =>
          /\ ~Blank
          /\ nextTmp' = nextTmp + 1
          /\ Len(pendingMessages') = Len(pendingMessages) + 1]_vars

\* Two submits are queued, the send of the first answered and the send of
\* the second not yet.
C32_Witness ==
  /\ Len(pendingMessages) = 2
  /\ \E r \in requests : r.owner = << "send", 1 >> /\ r.resp # Null
  /\ \E r \in requests : r.owner = << "send", 2 >> /\ r.resp = Null

\* The polling chains that are alive: the mount loop and the schedule
\* chains of onAuth that have a tick queued or a fetch of theirs in flight.
AliveChains ==
  PollTimers \cup
    { r.owner : r \in { q \in StateFetches : q.owner[1] \in {"loop", "schedule"} } }

(***************************************************************************)
(* C33.  While a token is stored at most one self-rescheduling polling     *)
(* chain is alive: the mount loop and the chains started by onAuth never   *)
(* run side by side.                                                       *)
(***************************************************************************)
C33_OnePollingChain ==
  token # Null => Cardinality(AliveChains) <= 1

====
